---- MODULE Spec2Model ----
(***************************************************************************)
(* Text-extraction fallback pipeline of src/agent.py                       *)
(* (contains_devanagari, robust_decode, extract_text_with_pypdf,           *)
(* extract_text_from_pdf, extract_text_from_image, extract_text_any).      *)
(*                                                                         *)
(* A str is a sequence of Unicode code points, a bytes object a sequence   *)
(* of integers 0..255.  Python's None is the one-element sequence <<-1>>,  *)
(* which is no str (code points are >= 0); a decode that raises gives      *)
(* RAISE.  A provider call answers Ok(v), its value, or Raised.            *)
(***************************************************************************)
EXTENDS Integers, Sequences, FiniteSets, TLC

\* ------------------------------------------------------------------ bounds

\* most pages a PDF document of the model has
MaxPages == 2
\* most bytes an uploaded .txt buffer of the model has
MaxBytes == 3

\* --------------------------------------------------------------- constants

\* DEVANAGARI_RE = [ऀ-ॿ]
DEV_LO == 2304
DEV_HI == 2431
\* stage B gate: len(text) < 50
BLOCKS_MIN_LEN == 50
\* stage D gate: len(text) < 50
PYPDF_MIN_LEN == 50
\* stage E gate: len(text) < 80
OCR_MIN_LEN == 80
\* a block tuple carries its text at index 4, so it needs len(b) >= 5
BLOCK_MIN_FIELDS == 5

None == <<-1>>
RAISE == <<-2>>

\* pdf_path = None (a path is a TLA+ string, so its None is one too)
NoPath == "None"

\* what a call of a provider answers: a value, or an exception
Ok(v) == [raise |-> FALSE, val |-> v]
Raised == [raise |-> TRUE, val |-> <<>>]

\* ------------------------------------------------------------ str helpers

SetMin(S) == CHOOSE x \in S : \A y \in S : x <= y
SetMax(S) == CHOOSE x \in S : \A y \in S : x >= y

\* n copies of code point c
Rep(c, n) == [i \in 1..n |-> c]

\* the code points str.strip() removes (Unicode White_Space plus the
\* separators 0x1C..0x1F, as CPython's str.isspace)
WS == (9..13) \cup (28..32) \cup {133, 160, 5760} \cup (8192..8202)
        \cup {8232, 8233, 8239, 8287, 12288}

\* s.strip()
Strip(s) ==
    LET keep == {i \in 1..Len(s) : s[i] \notin WS}
    IN IF keep = {} THEN <<>> ELSE SubSeq(s, SetMin(keep), SetMax(keep))

\* sep.join(parts)
RECURSIVE Join(_, _)
Join(sep, parts) ==
    IF Len(parts) = 0 THEN <<>>
    ELSE IF Len(parts) = 1 THEN parts[1]
    ELSE parts[1] \o sep \o Join(sep, Tail(parts))

\* x or ""  (None and "" are falsy)
OrEmpty(x) == IF x = None \/ x = <<>> THEN <<>> ELSE x

\* ---------------------------------------------------- contains_devanagari

\* the mutant: an exclusive upper end of the range
contains_devanagari_OffByOne(s) ==
    LET t == OrEmpty(s)
    IN \E i \in 1..Len(t) : t[i] >= DEV_LO /\ t[i] < DEV_HI

\* bool(DEVANAGARI_RE.search(s or ""))
contains_devanagari(s) ==
    LET t == OrEmpty(s)
    IN \E i \in 1..Len(t) : t[i] >= DEV_LO /\ t[i] <= DEV_HI

\* ------------------------------------------------------------ robust_decode

\* b[i] is a UTF-8 continuation byte 10xxxxxx
Cont(b, i) == i <= Len(b) /\ b[i] >= 128 /\ b[i] <= 191

\* bytes.decode("utf-8") from index i on: strict, so an invalid start byte, a
\* missing continuation, an overlong form, a surrogate or a code point above
\* U+10FFFF raises
RECURSIVE Utf8From(_, _)
Utf8From(b, i) ==
    IF i > Len(b) THEN <<>>
    ELSE
      LET b0 == b[i]
          one == b0 < 128
          two == b0 >= 194 /\ b0 <= 223 /\ Cont(b, i + 1)
          three == /\ b0 >= 224 /\ b0 <= 239
                   /\ Cont(b, i + 1) /\ Cont(b, i + 2)
                   /\ (b0 = 224 => b[i + 1] >= 160)
                   /\ (b0 = 237 => b[i + 1] <= 159)
          four == /\ b0 >= 240 /\ b0 <= 244
                  /\ Cont(b, i + 1) /\ Cont(b, i + 2) /\ Cont(b, i + 3)
                  /\ (b0 = 240 => b[i + 1] >= 144)
                  /\ (b0 = 244 => b[i + 1] <= 143)
          n == IF one THEN 1 ELSE IF two THEN 2 ELSE IF three THEN 3
               ELSE IF four THEN 4 ELSE 0
          cp == IF one THEN b0
                ELSE IF two THEN (b0 - 192) * 64 + (b[i + 1] - 128)
                ELSE IF three
                  THEN (b0 - 224) * 4096 + (b[i + 1] - 128) * 64 + (b[i + 2] - 128)
                ELSE (b0 - 240) * 262144 + (b[i + 1] - 128) * 4096
                       + (b[i + 2] - 128) * 64 + (b[i + 3] - 128)
      IN IF n = 0 THEN RAISE
         ELSE LET rest == Utf8From(b, i + n)
              IN IF rest = RAISE THEN RAISE ELSE <<cp>> \o rest

\* the 16-bit code unit at bytes i, i+1
Unit(b, i, little) ==
    IF little THEN b[i] + 256 * b[i + 1] ELSE 256 * b[i] + b[i + 1]

\* UTF-16 decoding of b from index i on in the given byte order: a trailing odd
\* byte (truncated data) and an unpaired surrogate raise
RECURSIVE Utf16From(_, _, _)
Utf16From(b, i, little) ==
    IF i > Len(b) THEN <<>>
    ELSE IF i = Len(b) THEN RAISE
    ELSE
      LET u == Unit(b, i, little)
          high == u >= 55296 /\ u <= 56319
          low == u >= 56320 /\ u <= 57343
          paired == /\ high /\ i + 3 <= Len(b)
                    /\ Unit(b, i + 2, little) >= 56320
                    /\ Unit(b, i + 2, little) <= 57343
          n == IF paired THEN 4 ELSE IF high \/ low THEN 0 ELSE 2
          cp == IF paired
                  THEN 65536 + (u - 55296) * 1024 + (Unit(b, i + 2, little) - 56320)
                  ELSE u
      IN IF n = 0 THEN RAISE
         ELSE LET rest == Utf16From(b, i + n, little)
              IN IF rest = RAISE THEN RAISE ELSE <<cp>> \o rest

\* b starts with the bytes of pre
StartsWith(b, pre) == Len(b) >= Len(pre) /\ SubSeq(b, 1, Len(pre)) = pre

\* b.decode(enc): the decoded str, or RAISE.  "utf-8-sig" drops one leading
\* EF BB BF; "utf-16" takes its byte order from a leading FF FE / FE FF, which it
\* drops, and else the host's (sys.byteorder, hostLittle); "utf-16le" and
\* "utf-16be" keep a leading BOM as U+FEFF
Decode(enc, b, hostLittle) ==
    CASE enc = "utf-8" -> Utf8From(b, 1)
      [] enc = "utf-8-sig" ->
           IF StartsWith(b, <<239, 187, 191>>) THEN Utf8From(b, 4) ELSE Utf8From(b, 1)
      [] enc = "utf-16" ->
           IF StartsWith(b, <<255, 254>>) THEN Utf16From(b, 3, TRUE)
           ELSE IF StartsWith(b, <<254, 255>>) THEN Utf16From(b, 3, FALSE)
           ELSE Utf16From(b, 1, hostLittle)
      [] enc = "utf-16le" -> Utf16From(b, 1, TRUE)
      [] enc = "utf-16be" -> Utf16From(b, 1, FALSE)

\* b.decode("latin-1", errors="ignore"): every byte is its own code point
Latin1(b) == b

\* the encodings robust_decode tries, in its order
ENCODINGS == <<"utf-8", "utf-8-sig", "utf-16", "utf-16le", "utf-16be">>

\* the for loop of robust_decode from its i-th encoding on, then the fallback:
\* the str returned (text) and the codec whose decode returned it (by)
RECURSIVE DecodeFrom(_, _, _)
DecodeFrom(i, b, hostLittle) ==
    IF i > Len(ENCODINGS) THEN [text |-> Latin1(b), by |-> "latin-1"]
    ELSE LET r == Decode(ENCODINGS[i], b, hostLittle)
         IN IF r # RAISE THEN [text |-> r, by |-> ENCODINGS[i]]
            ELSE DecodeFrom(i + 1, b, hostLittle)

\* the mutant: the fallback is a strict ASCII decode, which raises on a byte
\* above 127
robust_decode_StrictFallback(b, hostLittle) ==
    LET r == DecodeFrom(1, b, hostLittle)
    IN IF r.by = "latin-1" /\ \E i \in 1..Len(b) : b[i] > 127
         THEN [text |-> RAISE, by |-> "ascii"]
         ELSE r

\* robust_decode(b)
robust_decode(b, hostLittle) == DecodeFrom(1, b, hostLittle)

\* ------------------------------------------------------------ capabilities

\* what the imports of _lazy_imports do in this process: for each of its try
\* blocks, whether the imports in it succeed (ocr: the one try that imports
\* pytesseract and PIL, which fails when either import does)
Envs == [fitz : BOOLEAN, pdfminer : BOOLEAN, ocr : BOOLEAN, pypdf : BOOLEAN]

\* _lazy_imports(): the handle of every module (TRUE: the module, FALSE: None);
\* the failing try of pytesseract and PIL sets both handles to None
lazy_imports(e) ==
    [fitz |-> e.fitz,
     pdfminer_extract_text |-> e.pdfminer,
     pytesseract |-> e.ocr,
     PIL_Image |-> e.ocr,
     PdfReader |-> e.pypdf]

\* ------------------------------------------------------- provider answers

\* the page texts a provider (fitz get_text("text"), pypdf extract_text,
\* pytesseract image_to_string) answers in the model: empty, short Latin with
\* surrounding white space, one Devanagari letter, a long Latin paragraph
PagePool ==
    { <<>>, <<32, 97, 10>>, <<DEV_LO>>, Rep(97, PYPDF_MIN_LEN) }

\* the documents of n pages of a provider that answers pool elements page by
\* page
Docs(n, pool) == [1..n -> pool]

\* the answer of a provider a stage does not call
NotCalled == Ok(<<>>)

\* what page.extract_text() of pypdf answers for one page in the model: it
\* raises, answers None, one Devanagari letter, or a long Latin paragraph
PypdfPagePool ==
    {Raised, Ok(None), Ok(<<DEV_LO>>), Ok(Rep(97, PYPDF_MIN_LEN) \o <<10>>)}

\* a text block of fitz get_text("blocks"): (x0, y0, x1, y1, text, ...), its
\* coordinates in hundredths of a point
Block(x, y, t) == <<x, y, x + 1000, y + 1000, t>>

\* the block lists of one page in the model: none; two blocks of one line
\* stored right before left; a block with surrounding white space between a
\* tuple too short to carry text and a blank block
BlockPagePool ==
    { <<>>,
      << Block(5000, 1004, Rep(97, BLOCKS_MIN_LEN)), Block(0, 1001, <<DEV_HI>>) >>,
      << <<0, 0, 1000, 1000>>, Block(0, 3000, <<32, 97, 32>>), Block(0, 2000, <<32>>) >> }

\* what pdfminer's extract_text answers in the model: None, short Latin, a
\* Devanagari letter, a long Latin text, and white space only (form feeds, one
\* per page of a scan) of 50 and of 80 characters
PdfminerPool ==
    { None, <<97, 98>>, <<DEV_HI, 32>>, Rep(97, OCR_MIN_LEN),
      Rep(12, PYPDF_MIN_LEN), Rep(12, OCR_MIN_LEN) }

\* ------------------------------------------------------------------ stages

\* what a stage leaves: the running best text, the trace, whether an exception
\* leaves extract_text_from_pdf, whether the stage called its provider and
\* whether that call raised
Out(t, l, x, ran, raised) ==
    [text |-> t, logs |-> l, exc |-> x, ran |-> ran, raised |-> raised]

\* A) PyMuPDF direct text.  r: Raised (fitz.open or a get_text raises), or the
\* page texts of the document
StageA(m, text, logs, r) ==
    IF ~m.fitz THEN Out(text, logs, FALSE, FALSE, FALSE)
    ELSE IF r.raise
      THEN Out(text, Append(logs, "fitz text failed"), FALSE, TRUE, TRUE)
    ELSE Out(Strip(Join(<<10>>, r.val)), logs, FALSE, TRUE, FALSE)

\* round(v, 1) of a coordinate given in hundredths, in tenths (the model's
\* coordinates never end in 5, where the float's binary value decides)
Round1(v) == IF v % 10 < 5 THEN v \div 10 ELSE v \div 10 + 1

\* the sort key (round(b[1],1), round(b[0],1)) of a before that of b
KeyLess(a, b) ==
    \/ Round1(a[2]) < Round1(b[2])
    \/ Round1(a[2]) = Round1(b[2]) /\ Round1(a[1]) < Round1(b[1])

\* blocks.sort(key=...): stable, by insertion
RECURSIVE SortBlocks(_)
SortBlocks(bs) ==
    IF Len(bs) <= 1 THEN bs
    ELSE LET init == SortBlocks(SubSeq(bs, 1, Len(bs) - 1))
             b == bs[Len(bs)]
             k == Cardinality({i \in 1..Len(init) : ~KeyLess(b, init[i])})
         IN SubSeq(init, 1, k) \o <<b>> \o SubSeq(init, k + 1, Len(init))

\* the texts one page adds to blocks_all: of the sorted blocks with at least
\* five fields, the stripped text where it is not empty
RECURSIVE BlockTexts(_)
BlockTexts(bs) ==
    IF Len(bs) = 0 THEN <<>>
    ELSE LET b == Head(bs)
             t == IF Len(b) >= BLOCK_MIN_FIELDS THEN Strip(OrEmpty(b[5])) ELSE <<>>
         IN (IF t # <<>> THEN <<t>> ELSE <<>>) \o BlockTexts(Tail(bs))

\* blocks_all over the pages of the document (a page whose get_text answers
\* None is a page with the block list <<>>: blocks = ... or [])
RECURSIVE BlocksAll(_)
BlocksAll(doc) ==
    IF Len(doc) = 0 THEN <<>>
    ELSE BlockTexts(SortBlocks(Head(doc))) \o BlocksAll(Tail(doc))

\* the replacement rule of stage B: longer, or Devanagari where there was none
AdoptB(textB, text) ==
    \/ Len(textB) > Len(text)
    \/ contains_devanagari(textB) /\ ~contains_devanagari(text)

\* the gate of stage B
GateB(m, text) ==
    m.fitz /\ (~contains_devanagari(text) \/ Len(text) < BLOCKS_MIN_LEN)

\* B) PyMuPDF blocks.  r: Raised, or the block lists of the pages
StageB(m, text, logs, r) ==
    IF ~GateB(m, text) THEN Out(text, logs, FALSE, FALSE, FALSE)
    ELSE IF r.raise
      THEN Out(text, Append(logs, "fitz blocks failed"), FALSE, TRUE, TRUE)
    ELSE LET textB == Strip(Join(<<10>>, BlocksAll(r.val)))
         IN Out(IF AdoptB(textB, text) THEN textB ELSE text,
                logs, FALSE, TRUE, FALSE)

\* the gate of stage C; path is pdf_path (NoPath when the temp file was not written)
GateC(m, text, path) ==
    ~contains_devanagari(text) /\ m.pdfminer_extract_text /\ path # NoPath

\* the replacement rule of stage C
AdoptC(t2, text) == contains_devanagari(t2) \/ Len(t2) > Len(text)

\* the mutant: stage C without its try, so that a raise of pdfminer leaves
\* extract_text_from_pdf
StageC_NoTry(m, text, logs, path, r) ==
    IF ~GateC(m, text, path) THEN Out(text, logs, FALSE, FALSE, FALSE)
    ELSE IF r.raise
      THEN Out(text, logs, TRUE, TRUE, TRUE)
    ELSE LET t2 == OrEmpty(r.val)
         IN Out(IF AdoptC(t2, text) THEN t2 ELSE text, logs, FALSE, TRUE, FALSE)

\* C) pdfminer.  r: Raised, or what pdfminer_extract_text(pdf_path) answers
StageC(m, text, logs, path, r) ==
    IF ~GateC(m, text, path) THEN Out(text, logs, FALSE, FALSE, FALSE)
    ELSE IF r.raise
      THEN Out(text, Append(logs, "pdfminer failed"), FALSE, TRUE, TRUE)
    ELSE LET t2 == OrEmpty(r.val)
         IN Out(IF AdoptC(t2, text) THEN t2 ELSE text, logs, FALSE, TRUE, FALSE)

\* parts of extract_text_with_pypdf: the text of every page whose extract_text
\* did not raise
RECURSIVE PypdfParts(_)
PypdfParts(pages) ==
    IF Len(pages) = 0 THEN <<>>
    ELSE (IF Head(pages).raise THEN <<>> ELSE <<OrEmpty(Head(pages).val)>>)
           \o PypdfParts(Tail(pages))

\* logs of extract_text_with_pypdf: one entry per page whose extract_text raised
RECURSIVE PypdfPageLogs(_)
PypdfPageLogs(pages) ==
    IF Len(pages) = 0 THEN <<>>
    ELSE (IF Head(pages).raise THEN <<"pypdf page error">> ELSE <<>>)
           \o PypdfPageLogs(Tail(pages))

\* extract_text_with_pypdf(pdf_bytes), which imports anew (e: the process's
\* imports now).  r: Raised (PdfReader or reader.pages raises), or per page what
\* page.extract_text() answers: a text, None, or Raised
extract_text_with_pypdf(e, r) ==
    IF ~lazy_imports(e).PdfReader
      THEN [text |-> <<>>, logs |-> <<"pypdf not available">>,
            ran |-> FALSE, raised |-> FALSE]
    ELSE IF r.raise
      THEN [text |-> <<>>, logs |-> <<"pypdf failed">>,
            ran |-> TRUE, raised |-> TRUE]
    ELSE [text |-> Strip(Join(<<10>>, PypdfParts(r.val))),
          logs |-> PypdfPageLogs(r.val) \o <<"pypdf extracted">>,
          ran |-> TRUE, raised |-> \E i \in 1..Len(r.val) : r.val[i].raise]

\* the mutant: stage D gated at the OCR length
GateD_AtOcrLength(text) == Len(text) < OCR_MIN_LEN

\* the gate of stage D
GateD(text) == Len(text) < PYPDF_MIN_LEN

\* the replacement rule of stage D
AdoptD(t3, text) == Len(t3) > Len(text) \/ contains_devanagari(t3)

\* D) pypdf
StageD(e, text, logs, r) ==
    IF ~GateD(text) THEN Out(text, logs, FALSE, FALSE, FALSE)
    ELSE LET p == extract_text_with_pypdf(e, r)
         IN Out(IF AdoptD(p.text, text) THEN p.text ELSE text,
                logs \o p.logs, FALSE, p.ran, p.raised)

\* the gate of stage E
GateE(text) == Len(text) < OCR_MIN_LEN /\ ~contains_devanagari(text)

\* the replacement rule of stage E
AdoptE(ocr_text, text) ==
    Len(ocr_text) > Len(text) \/ contains_devanagari(ocr_text)

\* the mutant: stage E without the else that logs the missing modules
StageE_NoSkipLog(m, text, logs, r) ==
    IF ~GateE(text) THEN Out(text, logs, FALSE, FALSE, FALSE)
    ELSE IF ~(m.fitz /\ m.pytesseract /\ m.PIL_Image)
      THEN Out(text, logs, FALSE, FALSE, FALSE)
    ELSE IF r.raise
      THEN Out(text, Append(logs, "OCR pipeline failed"), FALSE, TRUE, TRUE)
    ELSE LET ocr_text == Strip(Join(<<10, 10>>, r.val))
         IN Out(IF AdoptE(ocr_text, text) THEN ocr_text ELSE text,
                logs, FALSE, TRUE, FALSE)

\* E) OCR.  r: Raised (fitz, PIL or pytesseract raises on some page), or the
\* recognised text of every page
StageE(m, text, logs, r) ==
    IF ~GateE(text) THEN Out(text, logs, FALSE, FALSE, FALSE)
    ELSE IF ~(m.fitz /\ m.pytesseract /\ m.PIL_Image)
      THEN Out(text, Append(logs, "OCR skipped (fitz/pytesseract/PIL missing)."),
               FALSE, FALSE, FALSE)
    ELSE IF r.raise
      THEN Out(text, Append(logs, "OCR pipeline failed"), FALSE, TRUE, TRUE)
    ELSE LET ocr_text == Strip(Join(<<10, 10>>, r.val))
         IN Out(IF AdoptE(ocr_text, text) THEN ocr_text ELSE text,
                logs, FALSE, TRUE, FALSE)

\* extract_text_from_image(img_bytes).  r: Raised (PIL or pytesseract raises),
\* or what image_to_string answers
extract_text_from_image(m, r) ==
    IF ~(m.pytesseract /\ m.PIL_Image)
      THEN [text |-> <<>>, logs |-> <<"OCR not available">>]
    ELSE IF r.raise
      THEN [text |-> <<>>, logs |-> <<"Image OCR fail">>]
    ELSE [text |-> Strip(OrEmpty(r.val)), logs |-> <<"Image OCR ok">>]

\* --------------------------------------------------------- the temp file

\* the name NamedTemporaryFile gives the file of this call
TmpName == "tmp.pdf"

\* lines 229-234.  w: "ok"; "create_fails" (NamedTemporaryFile raises, no file);
\* "write_fails" (tmp.write raises: the file exists, delete=False keeps it, and
\* pdf_path is still None)
TmpWrite(w, fs) ==
    [path |-> IF w = "ok" THEN TmpName ELSE NoPath,
     files |-> IF w = "create_fails" THEN fs ELSE fs \cup {TmpName},
     logs |-> IF w = "ok" THEN <<>> ELSE <<"tmp pdf write failed">>]

\* lines 302-304: os.unlink(pdf_path) when pdf_path is set; an unlink that
\* raises is passed over and leaves the file
Unlink(path, fs, ok) == IF path # NoPath /\ ok THEN fs \ {path} ELSE fs

\* ------------------------------------------------------------------ state

VARIABLES
    pc,        \* where the call is
    kind,      \* the upload's kind, from the lower-cased file name's extension
    data,      \* the bytes read from a .txt upload
    hostLittle,\* sys.byteorder == "little" (read by the utf-16 codec)
    decodedBy, \* the codec whose decode robust_decode returned
    anyLogs,   \* logs of extract_text_any
    env,       \* what the imports of this process do, once _lazy_imports ran
    mods,      \* mods of extract_text_from_pdf / extract_text_from_image
    text,      \* text of extract_text_from_pdf: the running best
    logs,      \* logs of extract_text_from_pdf
    pdf_path,  \* pdf_path of extract_text_from_pdf
    files,     \* the temp files that exist
    called,    \* the stages whose provider this call has called
    raisedIn,  \* the stages whose provider raised in this call
    capSkipped,\* the stages whose gate was open and whose capability was missing
    scanLike,  \* every text stages A..D have left so far is near-empty
    pdfRet,    \* what extract_text_from_pdf returned
    pdfExc,    \* an exception left extract_text_from_pdf
    ret,       \* what extract_text_any returned
    exc,       \* an exception left extract_text_any
    probe,     \* the argument of a call of contains_devanagari
    probed,    \* what that call returned ("none" before it)
    importable,\* per try of _lazy_imports: its imports would succeed if run anew
    loaded,    \* per try of _lazy_imports: its modules are in sys.modules
    firstMods, \* what the first _lazy_imports() of the process returned
    importRuns,\* how many times _lazy_imports() has run in the process
    site       \* the function that called _lazy_imports() last

vars == <<pc, kind, data, hostLittle, decodedBy, anyLogs, env, mods, text, logs,
          pdf_path, files, called, raisedIn, capSkipped, scanLike, pdfRet, pdfExc,
          ret, exc, probe, probed, importable, loaded, firstMods, importRuns, site>>

\* the import machinery of the process over its calls of _lazy_imports
impVars == <<importable, loaded, firstMods, importRuns, site>>

anyVars == <<kind, data, hostLittle, decodedBy, anyLogs, probe, probed>>

pdfVars == <<mods, text, logs, pdf_path, files, called, raisedIn, capSkipped,
            scanLike, pdfRet, pdfExc>>

Kinds == {"txt", "pdf", "image", "other"}

\* the bytes of a .txt upload in the model: NUL, the UTF-8 form E0 A4 BF of the
\* Devanagari sign U+093F, the UTF-8 signature EF BB BF, the byte-order marks
\* FF FE and FE FF, and D8, the high byte of a UTF-16 surrogate
TxtBytes == {0, 164, 187, 191, 216, 224, 239, 254, 255}

TxtBuffers == UNION { [1..n -> TxtBytes] : n \in 0..MaxBytes }

NoEnv == [fitz |-> FALSE, pdfminer |-> FALSE, ocr |-> FALSE, pypdf |-> FALSE,
          resolved |-> FALSE]

NoRet == [text |-> None, logs |-> <<>>]

\* the process before a call, all but the argument of contains_devanagari
Idle ==
    /\ pc = "start"
    /\ kind = "other"
    /\ data = <<>>
    /\ hostLittle = TRUE
    /\ decodedBy = "none"
    /\ anyLogs = <<>>
    /\ env = NoEnv
    /\ mods = lazy_imports(NoEnv)
    /\ text = <<>>
    /\ logs = <<>>
    /\ pdf_path = NoPath
    /\ files = {}
    /\ called = {}
    /\ raisedIn = {}
    /\ capSkipped = {}
    /\ scanLike = TRUE
    /\ pdfRet = NoRet
    /\ pdfExc = FALSE
    /\ ret = NoRet
    /\ exc = FALSE

\* no _lazy_imports() has run
NoImports ==
    /\ loaded = [fitz |-> FALSE, pdfminer |-> FALSE, ocr |-> FALSE, pypdf |-> FALSE]
    /\ firstMods = lazy_imports(loaded)
    /\ importRuns = 0
    /\ site = "none"

Init ==
    /\ Idle
    /\ probe = <<>>
    /\ probed = "none"
    /\ importable = [fitz |-> FALSE, pdfminer |-> FALSE, ocr |-> FALSE, pypdf |-> FALSE]
    /\ NoImports

\* the imports of the process, resolved by the first _lazy_imports()
Resolve(e) == [fitz |-> e.fitz, pdfminer |-> e.pdfminer, ocr |-> e.ocr,
               pypdf |-> e.pypdf, resolved |-> TRUE]

\* ----------------------------------------------------------------- actions

\* the answers of a provider called on a whole document: it raises, or answers
\* for every page of a document of 1..MaxPages pages; when the stage does not
\* call it (~calls), there is no answer to choose
DocAnswers(calls, pool) ==
    IF calls
      THEN {Raised} \cup { Ok(d) : d \in UNION { Docs(n, pool) : n \in 1..MaxPages } }
      ELSE {NotCalled}

\* the answers of a provider called once
Answers(calls, pool) ==
    IF calls THEN {Raised} \cup { Ok(v) : v \in pool } ELSE {NotCalled}

\* extract_text_any, lines 322-324: the name's extension, uploaded_file.read()
\* (outside the try: a read that raises leaves the function), the File entry
AnyBegin ==
    /\ pc = "start"
    /\ \E k \in Kinds, readOk \in BOOLEAN :
         IF readOk
           THEN /\ kind' = k
                /\ pc' = k
                /\ anyLogs' = <<"File">>
                /\ \E b \in (IF k = "txt" THEN TxtBuffers ELSE {<<>>}),
                      h \in (IF k = "txt" THEN BOOLEAN ELSE {TRUE}) :
                     data' = b /\ hostLittle' = h
                /\ UNCHANGED exc
           ELSE /\ kind' = k
                /\ pc' = "raised"
                /\ exc' = TRUE
                /\ UNCHANGED <<anyLogs, data, hostLittle>>
    /\ UNCHANGED <<env, ret, decodedBy, probe, probed>>
    /\ UNCHANGED pdfVars
    /\ UNCHANGED impVars

\* what the try of extract_text_any returns for a .txt upload, lines 326-327
\* and 333-334: robust_decode's str, or the handler's result were it to raise
AnyTxtResult(b, h, lg) ==
    LET t == robust_decode(b, h).text
    IN IF t = RAISE
         THEN [text |-> <<>>, logs |-> Append(lg, "extract_text_any error")]
         ELSE [text |-> t, logs |-> Append(lg, "Read .txt (robust)")]

\* extract_text_any, a .txt upload
AnyTxt ==
    /\ pc = "txt"
    /\ ret' = AnyTxtResult(data, hostLittle, anyLogs)
    /\ decodedBy' = robust_decode(data, hostLittle).by
    /\ pc' = "done"
    /\ UNCHANGED <<kind, data, hostLittle, anyLogs, env, exc, probe, probed>>
    /\ UNCHANGED pdfVars
    /\ UNCHANGED impVars

\* extract_text_any, line 332: no known extension
AnyUnsupported ==
    /\ pc = "other"
    /\ ret' = [text |-> <<>>, logs |-> Append(anyLogs, "Unsupported file type.")]
    /\ pc' = "done"
    /\ UNCHANGED anyVars
    /\ UNCHANGED <<env, exc>>
    /\ UNCHANGED pdfVars
    /\ UNCHANGED impVars

\* what image_to_string answers for an image upload in the model
ImagePool == { None, <<32, 97, 10>>, <<DEV_LO>> }

\* t, more = extract_text_from_...(data); return t, logs + more (lines 329, 331)
AnyResult(lg, p) == [text |-> p.text, logs |-> lg \o p.logs]

\* extract_text_any, lines 330-331, with extract_text_from_image
AnyImage ==
    /\ pc = "image"
    /\ \E e \in Envs :
         /\ env' = Resolve(e)
         /\ mods' = lazy_imports(e)
         /\ \E r \in Answers(lazy_imports(e).pytesseract /\ lazy_imports(e).PIL_Image,
                             ImagePool) :
              ret' = AnyResult(anyLogs, extract_text_from_image(lazy_imports(e), r))
    /\ pc' = "done"
    /\ UNCHANGED anyVars
    /\ UNCHANGED exc
    /\ UNCHANGED <<text, logs, pdf_path, files, called, raisedIn, capSkipped,
                   scanLike, pdfRet, pdfExc>>
    /\ UNCHANGED impVars

\* extract_text_from_pdf, lines 222-234: the imports, the locals, the temp file
PdfBegin ==
    /\ pc = "pdf"
    /\ \E e \in Envs, w \in {"ok", "create_fails", "write_fails"} :
         LET t == TmpWrite(w, files)
         IN /\ env' = Resolve(e)
            /\ mods' = lazy_imports(e)
            /\ text' = <<>>
            /\ logs' = t.logs
            /\ pdf_path' = t.path
            /\ files' = t.files
    /\ pc' = "A"
    /\ UNCHANGED anyVars
    /\ UNCHANGED <<ret, exc>>
    /\ UNCHANGED <<called, raisedIn, capSkipped, scanLike, pdfRet, pdfExc>>
    /\ UNCHANGED impVars

\* what extract_text_any returns when extract_text_from_pdf raises, lines 333-334
AnyHandler(lg) == [text |-> <<>>, logs |-> Append(lg, "extract_text_any error")]

\* t, trimmed as the return trims it, is shorter than the shortest paragraph
\* (the length floor of line 276), and has no Devanagari character
NearEmpty(t) == Len(Strip(t)) < PYPDF_MIN_LEN /\ ~contains_devanagari(t)

\* stage st, about to run, does not call its provider only because a
\* capability it needs is None: its condition on the running best holds
SkipsForCapability(st) ==
    CASE st = "A" -> ~mods.fitz
      [] st = "B" -> ~mods.fitz
                       /\ (~contains_devanagari(text) \/ Len(text) < BLOCKS_MIN_LEN)
      [] st = "C" -> ~contains_devanagari(text)
                       /\ (~mods.pdfminer_extract_text \/ pdf_path = NoPath)
      [] st = "D" -> GateD(text) /\ ~lazy_imports(env).PdfReader
      [] st = "E" -> GateE(text)
                       /\ ~(mods.fitz /\ mods.pytesseract /\ mods.PIL_Image)

\* a stage st has left o: the locals take its values and the call goes on at
\* next, unless an exception leaves extract_text_from_pdf, which the try of
\* extract_text_any turns into its result
Advance(st, o, next) ==
    /\ text' = o.text
    /\ logs' = o.logs
    /\ called' = IF o.ran THEN called \cup {st} ELSE called
    /\ raisedIn' = IF o.raised THEN raisedIn \cup {st} ELSE raisedIn
    /\ capSkipped' = IF SkipsForCapability(st) THEN capSkipped \cup {st}
                      ELSE capSkipped
    /\ scanLike' = IF st = "E" THEN scanLike ELSE scanLike /\ NearEmpty(o.text)
    /\ IF o.exc
         THEN /\ pdfExc' = TRUE
              /\ ret' = AnyHandler(anyLogs)
              /\ pc' = "done"
         ELSE /\ pc' = next
              /\ UNCHANGED <<pdfExc, ret>>
    /\ UNCHANGED anyVars
    /\ UNCHANGED <<env, exc>>
    /\ UNCHANGED <<mods, pdf_path, files, pdfRet>>
    /\ UNCHANGED impVars

\* lines 236-244
StageAStep ==
    /\ pc = "A"
    /\ \E r \in DocAnswers(mods.fitz, PagePool) :
         Advance("A", StageA(mods, text, logs, r), "B")

\* lines 246-264
StageBStep ==
    /\ pc = "B"
    /\ \E r \in DocAnswers(GateB(mods, text), BlockPagePool) :
         Advance("B", StageB(mods, text, logs, r), "C")

\* lines 266-273
StageCStep ==
    /\ pc = "C"
    /\ \E r \in Answers(GateC(mods, text, pdf_path), PdfminerPool) :
         Advance("C", StageC(mods, text, logs, pdf_path, r), "D")

\* lines 275-280
StageDStep ==
    /\ pc = "D"
    /\ \E r \in DocAnswers(GateD(text) /\ env.pypdf, PypdfPagePool) :
         Advance("D", StageD(env, text, logs, r), "E")

\* lines 282-300
StageEStep ==
    /\ pc = "E"
    /\ \E r \in DocAnswers(GateE(text) /\ mods.fitz /\ mods.pytesseract
                                /\ mods.PIL_Image, PagePool) :
         Advance("E", StageE(mods, text, logs, r), "unlink")

\* return text.strip(), logs (line 306)
PdfResult(t, lg) == [text |-> Strip(t), logs |-> lg]

\* lines 302-306, and the return of extract_text_any at line 329
PdfFinish ==
    /\ pc = "unlink"
    /\ \E ok \in (IF pdf_path # NoPath THEN BOOLEAN ELSE {TRUE}) :
         files' = Unlink(pdf_path, files, ok)
    /\ pdfRet' = PdfResult(text, logs)
    /\ ret' = AnyResult(anyLogs, PdfResult(text, logs))
    /\ pc' = "done"
    /\ UNCHANGED anyVars
    /\ UNCHANGED <<env, exc>>
    /\ UNCHANGED <<mods, text, logs, pdf_path, called, raisedIn, capSkipped,
                   scanLike, pdfExc>>
    /\ UNCHANGED impVars

Next ==
    \/ AnyBegin
    \/ AnyTxt
    \/ AnyUnsupported
    \/ AnyImage
    \/ PdfBegin
    \/ StageAStep
    \/ StageBStep
    \/ StageCStep
    \/ StageDStep
    \/ StageEStep
    \/ PdfFinish

Spec == Init /\ [][Next]_vars

\* ------------------------------------- contains_devanagari on its own

\* most characters of an argument of contains_devanagari
MaxStr == 3

\* the code points of the arguments: the ends of the Devanagari block
\* 0x0900..0x097F, their outer neighbours 0x08FF and 0x0980, and Latin a
ProbeChars == {DEV_LO - 1, DEV_LO, DEV_HI, DEV_HI + 1, 97}

Probes == {None} \cup UNION { [1..n -> ProbeChars] : n \in 0..MaxStr }

InitScript ==
    /\ Idle
    /\ probe \in Probes
    /\ probed = "none"
    /\ importable = [fitz |-> FALSE, pdfminer |-> FALSE, ocr |-> FALSE, pypdf |-> FALSE]
    /\ NoImports

\* a call contains_devanagari(probe)
Probe ==
    /\ probed = "none"
    /\ probed' = IF contains_devanagari(probe) THEN "true" ELSE "false"
    /\ UNCHANGED <<pc, kind, data, hostLittle, decodedBy, anyLogs, env, ret, exc,
                   probe>>
    /\ UNCHANGED pdfVars
    /\ UNCHANGED impVars

NextScript == Probe

SpecScript == InitScript /\ [][NextScript]_vars

\* ------------------------------ _lazy_imports over the life of a process

\* most calls of _lazy_imports() in a process of the model
MaxCalls == 3

\* the tries of _lazy_imports
Tries == {"fitz", "pdfminer", "ocr", "pypdf"}

\* what the tries of a _lazy_imports() run now do: an import statement succeeds
\* when its module is in sys.modules already, and otherwise when the import
\* machinery finds and loads it
ImportOutcome == [k \in Tries |-> loaded[k] \/ importable[k]]

InitImports ==
    /\ Idle
    /\ probe = <<>>
    /\ probed = "none"
    /\ importable \in Envs
    /\ NoImports

\* the state of a call, which the import machinery does not touch
callVars == <<pc, kind, data, hostLittle, decodedBy, anyLogs, env, text, logs,
             pdf_path, files, called, raisedIn, capSkipped, scanLike, pdfRet,
             pdfExc, ret, exc, probe, probed>>

\* one run of _lazy_imports() (lines 148-174), called from function f: every try
\* runs its import statements again, a module that loads stays in sys.modules,
\* and the mods dict returned is new
LazyImports(f) ==
    /\ mods' = lazy_imports(ImportOutcome)
    /\ loaded' = ImportOutcome
    /\ firstMods' = IF importRuns = 0 THEN lazy_imports(ImportOutcome) ELSE firstMods
    /\ importRuns' = importRuns + 1
    /\ site' = f
    /\ UNCHANGED importable
    /\ UNCHANGED callVars

\* mods = _lazy_imports() of extract_text_from_pdf, line 223
ImportsInPdf ==
    /\ importRuns < MaxCalls
    /\ LazyImports("extract_text_from_pdf")

\* _lazy_imports().get("PdfReader") of extract_text_with_pypdf, line 206, which
\* extract_text_from_pdf calls at line 277 after its own _lazy_imports()
ImportsInPypdf ==
    /\ importRuns < MaxCalls
    /\ site = "extract_text_from_pdf"
    /\ LazyImports("extract_text_with_pypdf")

\* mods = _lazy_imports() of extract_text_from_image, line 309
ImportsInImage ==
    /\ importRuns < MaxCalls
    /\ LazyImports("extract_text_from_image")

\* the environment of the process changes between two import statements: a
\* package is installed or removed, a shared library appears or goes
EnvironmentChanges ==
    /\ \E e \in Envs : e # importable /\ importable' = e
    /\ UNCHANGED <<loaded, firstMods, importRuns, site, mods>>
    /\ UNCHANGED callVars

NextImports ==
    \/ ImportsInPdf
    \/ ImportsInPypdf
    \/ ImportsInImage
    \/ EnvironmentChanges

SpecImports == InitImports /\ [][NextImports]_vars

\* ------------------------------------------------------------------ claims

Stages == {"A", "B", "C", "D", "E"}

\* the call is inside extract_text_from_pdf
InPdf == pc \in {"A", "B", "C", "D", "E", "unlink"}

\* extract_text_from_pdf has returned to extract_text_any, which has returned
PdfDone == pc = "done" /\ kind = "pdf"

\* x is a str: every element a code point
IsStr(x) == \A i \in 1..Len(x) : x[i] >= 0

\* x is a (text, trace) pair
IsPair(x) == IsStr(x.text) /\ x.logs \in Seq(STRING)

\* C1: whatever the capabilities and whichever provider calls, temp-file write
\* or unlink raise, no exception leaves extract_text_from_pdf, none leaves
\* extract_text_any once it holds the bytes, and when the call is over both
\* have returned a (text, trace) pair, that of extract_text_any not through its
\* handler.
C1_NoExceptionEscapes ==
    /\ ~pdfExc
    /\ (anyLogs # <<>> => ~exc)
    /\ (PdfDone => /\ IsPair(pdfRet) /\ IsPair(ret)
                   /\ ret = AnyResult(anyLogs, pdfRet))
    /\ (pc = "done" => IsPair(ret))

\* C1's case: every stage's provider raised, and so did the unlink
C1_Witness ==
    /\ PdfDone
    /\ raisedIn = Stages
    /\ TmpName \in files
    /\ IsPair(pdfRet)

\* the stage a trace entry of extract_text_from_pdf is about ("tmp": the temp file)
EntryStage(e) ==
    CASE e = "fitz text failed" -> "A"
      [] e = "fitz blocks failed" -> "B"
      [] e = "pdfminer failed" -> "C"
      [] e \in {"pypdf not available", "pypdf page error", "pypdf extracted",
                "pypdf failed"} -> "D"
      [] e \in {"OCR pipeline failed",
                "OCR skipped (fitz/pytesseract/PIL missing)."} -> "E"
      [] OTHER -> "tmp"

\* the stages of the entries of a trace are in execution order
InStageOrder(lg) ==
    \A i, j \in 1..Len(lg) :
        i < j /\ EntryStage(lg[i]) # "tmp" /\ EntryStage(lg[j]) # "tmp"
          => EntryStage(lg[i]) <= EntryStage(lg[j])

\* C2: in one extract_text_from_pdf call every one of the five stages has at
\* least one entry in the returned trace, and the entries are in stage order.
C2_EveryStageLogged ==
    PdfDone =>
        /\ \A st \in Stages : \E i \in 1..Len(pdfRet.logs) :
              EntryStage(pdfRet.logs[i]) = st
        /\ InStageOrder(pdfRet.logs)

\* the capabilities a trace entry names as missing
NamesMissing(e) ==
    CASE e = "pypdf not available" -> {"pypdf"}
      [] e = "OCR skipped (fitz/pytesseract/PIL missing)."
           -> {"fitz", "pytesseract", "PIL"}
      [] e = "OCR not available" -> {"pytesseract", "PIL"}
      [] e = "tmp pdf write failed" -> {"tempfile"}
      [] OTHER -> {}

\* a trace has an entry that names capability c as missing
SaysMissing(lg, c) == \E i \in 1..Len(lg) : c \in NamesMissing(lg[i])

\* the capabilities stage st needs that are None in this call
MissingFor(st) ==
    CASE st \in {"A", "B"} -> {"fitz"}
      [] st = "C" -> (IF mods.pdfminer_extract_text THEN {} ELSE {"pdfminer"})
                       \cup (IF pdf_path = NoPath THEN {"tempfile"} ELSE {})
      [] st = "D" -> {"pypdf"}
      [] st = "E" -> (IF mods.fitz THEN {} ELSE {"fitz"})
                       \cup (IF mods.pytesseract THEN {} ELSE {"pytesseract"})
                       \cup (IF mods.PIL_Image THEN {} ELSE {"PIL"})

\* C3: a stage not attempted because a capability it needs is unavailable
\* leaves in the trace an entry that names the capability as missing: stage 1
\* when fitz is missing, the secondary parser when pdfminer or the temp file is
\* missing.
C3_MissingCapabilityLogged ==
    PdfDone =>
        \A st \in capSkipped : \A c \in MissingFor(st) :
            SaysMissing(pdfRet.logs, c)

\* a step leaves the running best as it was, or makes it strictly longer, or
\* gives it Devanagari characters it lacked
Improves ==
    \/ text' = text
    \/ Len(text') > Len(text)
    \/ contains_devanagari(text') /\ ~contains_devanagari(text)

\* C4: a stage B..E leaves the running best as it was, or makes it strictly
\* longer, or gives it Devanagari characters it lacked.
C4_MonotonicImprovement == [][(pc \in {"B", "C", "D", "E"}) => Improves]_vars

\* C5: when extract_text_from_pdf has returned, the temp file of the call does
\* not exist.
C5_TempFileRemoved == PdfDone => TmpName \notin files

\* the places in ENCODINGS of the codecs that decode b
Decoding(b, h) == {i \in 1..Len(ENCODINGS) : Decode(ENCODINGS[i], b, h) # RAISE}

\* C7: for every byte buffer robust_decode returns a str and raises nothing
\* (extract_text_any answers it with the "Read .txt (robust)" entry, not through
\* its handler); the str is that of the first codec in the fixed order that
\* decodes the buffer; and the latin-1 fallback returns it exactly when all five
\* codecs raised.
C7_RobustDecodeTotal ==
    pc = "done" /\ kind = "txt" =>
        LET ok == Decoding(data, hostLittle)
        IN /\ IsStr(ret.text)
           /\ ret.logs = <<"File", "Read .txt (robust)">>
           /\ ~exc
           /\ (decodedBy = "latin-1") <=> (ok = {})
           /\ ok # {} =>
                 /\ decodedBy = ENCODINGS[SetMin(ok)]
                 /\ ret.text = Decode(ENCODINGS[SetMin(ok)], data, hostLittle)
           /\ ok = {} => Len(ret.text) = Len(data)

\* C7's case: no codec decodes the buffer, which has a byte no 7-bit codec
\* takes, and the fallback returned
C7_Witness ==
    /\ pc = "done" /\ kind = "txt"
    /\ Decoding(data, hostLittle) = {}
    /\ \E i \in 1..Len(data) : data[i] > 127
    /\ decodedBy = "latin-1"
    /\ ret.text = data

\* C8: contains_devanagari(s) is true exactly when s has a character in
\* 0x0900..0x097F (2304..2431): U+08FF and U+0980 alone give false, U+0900 and
\* U+097F alone give true, the empty string and None give false.
C8_DevanagariRange ==
    probed # "none" =>
        /\ (probed = "true") <=>
              (probe # None /\ \E i \in 1..Len(probe) : probe[i] \in 2304..2431)
        /\ probe \in {<<2303>>, <<2432>>, <<>>, None} => probed = "false"
        /\ probe \in {<<2304>>, <<2431>>} => probed = "true"

\* C8's case: the call returned true for a string whose only Devanagari
\* character is the last of the block, between characters outside it
C8_Witness ==
    /\ probed = "true"
    /\ probe = <<2303, 2431, 2432>>

NoCapability ==
    /\ ~mods.fitz /\ ~mods.pdfminer_extract_text
    /\ ~mods.pytesseract /\ ~mods.PIL_Image
    /\ ~env.pypdf

\* C10: a PDF or image call made when no extraction capability is available
\* returns the empty string, with a trace that names the capability missing
\* (pypdf and the OCR modules for a PDF, OCR for an image), and raises nothing.
C10_TotalFailure ==
    pc = "done" /\ kind \in {"pdf", "image"} /\ NoCapability =>
        /\ ~exc /\ ~pdfExc
        /\ ret.text = <<>>
        /\ kind = "pdf" =>
              /\ pdfRet.text = <<>>
              /\ SaysMissing(pdfRet.logs, "pypdf")
              /\ SaysMissing(pdfRet.logs, "pytesseract")
              /\ SaysMissing(ret.logs, "pypdf")
        /\ kind = "image" => SaysMissing(ret.logs, "pytesseract")

\* C10's case: a PDF call without any capability has returned
C10_Witness ==
    /\ PdfDone
    /\ NoCapability
    /\ called = {}
    /\ ret.text = <<>>

\* stage A alone has called its provider, which did not raise, and the running
\* best, its output, has a Devanagari character and the 50 characters of the
\* length gates
StageOneAdequate ==
    /\ pc \in {"B", "C", "D", "E", "unlink"}
    /\ called = {"A"} /\ raisedIn = {}
    /\ contains_devanagari(text)
    /\ Len(text) >= BLOCKS_MIN_LEN /\ Len(text) >= PYPDF_MIN_LEN

\* the step calls no provider and keeps the running best, and the return hands
\* the running best to the caller as it is
KeepsStageOne ==
    /\ called' = called
    /\ text' = text
    /\ ~pdfExc'
    /\ pc = "unlink" => pdfRet'.text = text /\ ret'.text = text

\* C11: once stage 1 has left a text with a Devanagari character and at least
\* 50 characters, no later stage calls its provider, the running best stays that
\* text, and it is the text returned (it is trimmed already).
C11_StageOneAlone == [][StageOneAdequate => KeepsStageOne]_vars

\* C11's case: a call has returned the two-page text of stage 1, one Devanagari
\* letter and a long Latin paragraph, with no other provider called
C11_Witness ==
    /\ PdfDone
    /\ called = {"A"} /\ raisedIn = {}
    /\ contains_devanagari(pdfRet.text)
    /\ Len(pdfRet.text) >= BLOCKS_MIN_LEN
    /\ mods.fitz /\ mods.pdfminer_extract_text /\ mods.pytesseract /\ env.pypdf
    /\ pdf_path # NoPath

\* fitz, pytesseract and PIL are all there: stage E can rasterise and recognise
OcrAvailable == mods.fitz /\ mods.pytesseract /\ mods.PIL_Image

\* C12: when stages 1 to 4 have each left empty or near-empty text without
\* Devanagari (white space included) and OCR is available, stage 5 calls its
\* provider; and the Devanagari text it then leaves is the text returned.
C12_ScannedPdfRunsOcr ==
    [][/\ (pc = "E" /\ scanLike /\ OcrAvailable => "E" \in called')
       /\ (pc = "unlink" /\ scanLike /\ "E" \in called /\ contains_devanagari(text)
             => pdfRet'.text = text)]_vars

\* C13: the availability flags are computed once in the process and read-only
\* afterwards: the imports run once, and every _lazy_imports() of every call,
\* the nested one of the pypdf stage included, returns the flags of the first.
C13_FlagsComputedOnce ==
    /\ importRuns <= 1
    /\ importRuns >= 1 => mods = firstMods

\* C14: stage 2 calls its provider only when the text stage 1 left is shorter
\* than 50 characters: a stage-1 text of 50 characters or more never triggers
\* it, with or without a Devanagari character.
C14_BlocksOnlyWhenShort ==
    [][pc = "B" /\ Len(text) >= BLOCKS_MIN_LEN => "B" \notin called']_vars

\* C15: a stage in which a provider raises (fitz text, fitz blocks, pdfminer,
\* the pypdf reader or one of its pages, OCR) leaves the running best as it
\* was, and the call goes on with the next stage.
C15_FailureMeansNoImprovement ==
    [][raisedIn' # raisedIn =>
          /\ text' = text
          /\ ~pdfExc'
          /\ pc' \in {"B", "C", "D", "E", "unlink"}]_vars

\* C16: once the running best has a Devanagari character, it has one after
\* every later stage, and so has the text returned.
C16_ScriptNeverLost ==
    [][InPdf /\ contains_devanagari(text) =>
          /\ contains_devanagari(text')
          /\ pc = "unlink" => contains_devanagari(pdfRet'.text)]_vars

\* the running best is white space only
Blank == text # <<>> /\ Strip(text) = <<>>

\* C17: the gates judge the text the caller receives: a call that returns a
\* text shorter than 80 characters without Devanagari, with fitz, pytesseract
\* and PIL available, has called the OCR provider; and a running best of white
\* space only does not close the length gate of stage D (50) or of stage E (80).
C17_GatesJudgeReturnedText ==
    [][/\ (/\ pc = "unlink"
           /\ Len(pdfRet'.text) < OCR_MIN_LEN
           /\ ~contains_devanagari(pdfRet'.text)
           /\ OcrAvailable) => "E" \in called
       /\ (pc = "D" /\ Blank /\ env.pypdf) => "D" \in called'
       /\ (pc = "E" /\ Blank /\ OcrAvailable) => "E" \in called']_vars

====
